---- MODULE Spec2Model ----
(***************************************************************************)
(* DictionaryMember::parse of weedle (src/src/dictionary.rs).              *)
(*                                                                         *)
(* The input text is a sequence of tokens; a cursor (Rust's `&str` that    *)
(* is shadowed after every sub-parse) is the unconsumed suffix.  Each      *)
(* `let (input, x) = P::parse(input)?;` of the function is one action.     *)
(***************************************************************************)
EXTENDS Integers, Sequences

\* Longest run of arbitrary tokens of an input text.
MaxTail == 4

\* The same, for the texts that are parsed twice.
MaxTailAgain == 3

---------------------------------------------------------------------------
(* Tokens                                                                  *)

AttrLists   == {"[A]", "[B]"}
TypeNames   == {"long"}
Identifiers == {"num"}
Defaults    == {"= 5"}
Tokens      == AttrLists \cup TypeNames \cup Identifiers \cup Defaults
                 \cup {"required", ";"}

\* What may stand before the type of a member: a member-level list,
\* `required`, a type-level list, each there or not.
OptionalList     == {<<>>} \cup {<<a>> : a \in AttrLists}
OptionalRequired == {<<>>, <<"required">>}
Heads == {ma \o rq \o ta :
             ma \in OptionalList, rq \in OptionalRequired, ta \in OptionalList}

---------------------------------------------------------------------------
(* Option<T> and IResult                                                   *)

None    == <<>>
Some(v) == <<v>>
IsSome(o) == o # None

Ok(rest, value) == [ok |-> TRUE, rest |-> rest, value |-> value, kind |-> ""]
Err(at, kind)   == [ok |-> FALSE, rest |-> at, value |-> None, kind |-> kind]

---------------------------------------------------------------------------
(* The collaborator parsers: cursor -> IResult, and the values they build. *)

\* ExtendedAttributeList: the attributes between the brackets.
AttrValue(tok) == IF tok = "[A]" THEN <<"A">> ELSE <<"B">>

\* Default: the `=` and the value after it.
DefaultValue(tok) == [assign |-> "=", value |-> "5"]

ExtendedAttributeListParse(in) ==
    IF in # <<>> /\ Head(in) \in AttrLists
    THEN Ok(Tail(in), AttrValue(Head(in))) ELSE Err(in, "ExtendedAttributeList")

RequiredParse(in) ==
    IF in # <<>> /\ Head(in) = "required"
    THEN Ok(Tail(in), "Required") ELSE Err(in, "Required")

TypeParse(in) ==
    IF in # <<>> /\ Head(in) \in TypeNames
    THEN Ok(Tail(in), Head(in)) ELSE Err(in, "Type")

IdentifierParse(in) ==
    IF in # <<>> /\ Head(in) \in Identifiers
    THEN Ok(Tail(in), Head(in)) ELSE Err(in, "Identifier")

DefaultParse(in) ==
    IF in # <<>> /\ Head(in) \in Defaults
    THEN Ok(Tail(in), DefaultValue(Head(in))) ELSE Err(in, "Default")

SemiColonParse(in) ==
    IF in # <<>> /\ Head(in) = ";"
    THEN Ok(Tail(in), "SemiColon") ELSE Err(in, "SemiColon")

\* <Option<T>>::parse: T's value, or None with the cursor where it was.
Opt(r, in) == IF r.ok THEN Ok(r.rest, Some(r.value)) ELSE Ok(in, None)

---------------------------------------------------------------------------
VARIABLES input, pc, cursor, attributes, required, type_attributes,
          type_, identifier, default, semi_colon, result, trace, call, prior

vars == <<input, pc, cursor, attributes, required, type_attributes,
          type_, identifier, default, semi_colon, result, trace, call, prior>>

(* Results of DictionaryMember::parse.                                     *)

Pending == [status |-> "Pending"]

\* An error rewritten on the way out instead of passed on.
FailureRetagged(r) == [status |-> "Err", input |-> r.rest, kind |-> "DictionaryMember"]

\* `?` on a failed sub-parse: return its error to the caller as it is.
Failure(r) == [status |-> "Err", input |-> r.rest, kind |-> r.kind]

Success(rest, member) == [status |-> "Ok", rest |-> rest, member |-> member]

\* `required` parsed as a mandatory keyword.
MandatoryRequired(in) ==
    IF RequiredParse(in).ok
    THEN Ok(RequiredParse(in).rest, Some(RequiredParse(in).value))
    ELSE RequiredParse(in)

\* The sub-parse expressions of the optional constructs.
OptMemberAttributes(in) == Opt(ExtendedAttributeListParse(in), in)
OptRequired(in)         == Opt(RequiredParse(in), in)
OptTypeAttributes(in)   == Opt(ExtendedAttributeListParse(in), in)
OptDefault(in)          == Opt(DefaultParse(in), in)

\* The branch never taken: every member goes down the optional path.
NeverRequiredPath(req) == FALSE

\* The branch inverted.
InvertedRequiredPath(req) == ~IsSome(req)

\* `if required.is_some()`
RequiredPath(req) == IsSome(req)

\* The merge with the member-level list winning.
MemberLevelWins(ma, ta) == IF IsSome(ma) THEN ma ELSE ta

\* The merge without the fall-back to the member-level list.
TypeLevelOnly(ma, ta) == ta

\* `match (attributes, type_attributes)`
MergedAttributes(ma, ta) == IF IsSome(ta) THEN ta ELSE ma

\* The struct literal of the required path.
RequiredMember(merged, req, ty, id, semi) ==
    [attributes |-> merged, required |-> req, type_ |-> ty,
     identifier |-> id, default |-> None, semi_colon |-> semi]

\* The optional path's literal with the attributes left out.
OptionalMemberNoAttributes(attrs, req, ty, id, def, semi) ==
    [attributes |-> None, required |-> req, type_ |-> ty,
     identifier |-> id, default |-> def, semi_colon |-> semi]

\* The optional path's literal with the default left out.
OptionalMemberNoDefault(attrs, req, ty, id, def, semi) ==
    [attributes |-> attrs, required |-> req, type_ |-> ty,
     identifier |-> id, default |-> None, semi_colon |-> semi]

\* The struct literal of the optional path.
OptionalMember(attrs, req, ty, id, def, semi) ==
    [attributes |-> attrs, required |-> req, type_ |-> ty,
     identifier |-> id, default |-> def, semi_colon |-> semi]

\* One application of a sub-parser, as the history records it.
Applied(name, at, r) == [parser |-> name, from |-> at, ok |-> r.ok, to |-> r.rest]

\* A call: the cursor is the argument, no local is bound yet.
Enter(text) ==
    /\ input = text
    /\ pc = "attributes"
    /\ cursor = text
    /\ attributes = None
    /\ required = None
    /\ type_attributes = None
    /\ type_ = ""
    /\ identifier = ""
    /\ default = None
    /\ semi_colon = ""
    /\ result = Pending
    /\ trace = <<>>

Init ==
    /\ \E h \in Heads, n \in 0..MaxTail :
         \E t \in [1..n -> Tokens] : Enter(h \o t)
    /\ call = "first"
    /\ prior = [input |-> <<>>, result |-> Pending]

InitAgain ==
    /\ \E h \in Heads, n \in 0..MaxTailAgain :
         \E t \in [1..n -> Tokens] : Enter(h \o t)
    /\ call = "first"
    /\ prior = [input |-> <<>>, result |-> Pending]

\* The early return of `?`: nothing else is bound, the call is over.
Return(name, r) ==
    /\ pc' = "done"
    /\ result' = Failure(r)
    /\ trace' = Append(trace, Applied(name, cursor, r))
    /\ UNCHANGED <<call, prior, input, cursor, attributes, required, type_attributes,
                   type_, identifier, default, semi_colon>>

ParseMemberAttributes ==
    /\ pc = "attributes"
    /\ LET r == OptMemberAttributes(cursor) IN
       IF r.ok
       THEN /\ attributes' = r.value
            /\ cursor' = r.rest
            /\ pc' = "required"
            /\ trace' = Append(trace, Applied("attributes", cursor, r))
            /\ UNCHANGED <<call, prior, input, required, type_attributes, type_,
                           identifier, default, semi_colon, result>>
       ELSE Return("attributes", r)

ParseRequired ==
    /\ pc = "required"
    /\ LET r == OptRequired(cursor) IN
       IF r.ok
       THEN /\ required' = r.value
            /\ cursor' = r.rest
            /\ pc' = IF RequiredPath(r.value) THEN "r_type_attributes" ELSE "o_type"
            /\ trace' = Append(trace, Applied("required", cursor, r))
            /\ UNCHANGED <<call, prior, input, attributes, type_attributes, type_,
                           identifier, default, semi_colon, result>>
       ELSE Return("required", r)

ParseTypeAttributes ==
    /\ pc = "r_type_attributes"
    /\ LET r == OptTypeAttributes(cursor) IN
       IF r.ok
       THEN /\ type_attributes' = r.value
            /\ cursor' = r.rest
            /\ pc' = "r_type"
            /\ trace' = Append(trace, Applied("type_attributes", cursor, r))
            /\ UNCHANGED <<call, prior, input, attributes, required, type_,
                           identifier, default, semi_colon, result>>
       ELSE Return("type_attributes", r)

ParseType ==
    /\ pc \in {"r_type", "o_type"}
    /\ LET r == TypeParse(cursor) IN
       IF r.ok
       THEN /\ type_' = r.value
            /\ cursor' = r.rest
            /\ pc' = IF pc = "r_type" THEN "r_identifier" ELSE "o_identifier"
            /\ trace' = Append(trace, Applied("type", cursor, r))
            /\ UNCHANGED <<call, prior, input, attributes, required, type_attributes,
                           identifier, default, semi_colon, result>>
       ELSE Return("type", r)

ParseIdentifier ==
    /\ pc \in {"r_identifier", "o_identifier"}
    /\ LET r == IdentifierParse(cursor) IN
       IF r.ok
       THEN /\ identifier' = r.value
            /\ cursor' = r.rest
            /\ pc' = IF pc = "r_identifier" THEN "r_semi_colon" ELSE "o_default"
            /\ trace' = Append(trace, Applied("identifier", cursor, r))
            /\ UNCHANGED <<call, prior, input, attributes, required, type_attributes,
                           type_, default, semi_colon, result>>
       ELSE Return("identifier", r)

ParseDefault ==
    /\ pc = "o_default"
    /\ LET r == OptDefault(cursor) IN
       IF r.ok
       THEN /\ default' = r.value
            /\ cursor' = r.rest
            /\ pc' = "o_semi_colon"
            /\ trace' = Append(trace, Applied("default", cursor, r))
            /\ UNCHANGED <<call, prior, input, attributes, required, type_attributes,
                           type_, identifier, semi_colon, result>>
       ELSE Return("default", r)

\* The terminator of the required path, the merge and the Ok(..) after it.
ParseSemiColonRequired ==
    /\ pc = "r_semi_colon"
    /\ LET r == SemiColonParse(cursor) IN
       IF r.ok
       THEN /\ semi_colon' = r.value
            /\ cursor' = r.rest
            /\ pc' = "done"
            /\ result' = Success(r.rest,
                   RequiredMember(MergedAttributes(attributes, type_attributes),
                                  required, type_, identifier, r.value))
            /\ trace' = Append(trace, Applied("semi_colon", cursor, r))
            /\ UNCHANGED <<call, prior, input, attributes, required, type_attributes,
                           type_, identifier, default>>
       ELSE Return("semi_colon", r)

\* The terminator of the optional path and the Ok(..) after it.
ParseSemiColonOptional ==
    /\ pc = "o_semi_colon"
    /\ LET r == SemiColonParse(cursor) IN
       IF r.ok
       THEN /\ semi_colon' = r.value
            /\ cursor' = r.rest
            /\ pc' = "done"
            /\ result' = Success(r.rest,
                   OptionalMember(attributes, required, type_, identifier,
                                  default, r.value))
            /\ trace' = Append(trace, Applied("semi_colon", cursor, r))
            /\ UNCHANGED <<call, prior, input, attributes, required, type_attributes,
                           type_, identifier, default>>
       ELSE Return("semi_colon", r)

\* The text of a member: its parts in grammar order.
AttrText(v)    == IF v = <<"A">> THEN "[A]" ELSE "[B]"
DefaultText(v) == v.assign \o " " \o v.value
Serialize(m) ==
    (IF IsSome(m.attributes) THEN <<AttrText(m.attributes[1])>> ELSE <<>>)
    \o (IF IsSome(m.required) THEN <<"required">> ELSE <<>>)
    \o <<m.type_, m.identifier>>
    \o (IF IsSome(m.default) THEN <<DefaultText(m.default[1])>> ELSE <<>>)
    \o <<";">>

\* Entry of a call of parse on `text`.
Call(text) ==
    /\ input' = text
    /\ cursor' = text
    /\ pc' = "attributes"
    /\ attributes' = None
    /\ required' = None
    /\ type_attributes' = None
    /\ type_' = ""
    /\ identifier' = ""
    /\ default' = None
    /\ semi_colon' = ""
    /\ result' = Pending
    /\ trace' = <<>>

\* The member of a successful first call is written out and parsed again.
Reserialize ==
    /\ pc = "done"
    /\ call = "first"
    /\ result.status = "Ok"
    /\ call' = "reparse"
    /\ prior' = [input |-> input, result |-> result]
    /\ Call(Serialize(result.member))

\* A second call that goes on from where the first one stopped.
ReinvokeStale ==
    /\ pc = "done"
    /\ call = "first"
    /\ call' = "again"
    /\ prior' = [input |-> input, result |-> result]
    /\ pc' = "attributes"
    /\ result' = Pending
    /\ trace' = <<>>
    /\ UNCHANGED <<input, cursor, attributes, required, type_attributes,
                   type_, identifier, default, semi_colon>>

\* A second call on the text of the first.
Reinvoke ==
    /\ pc = "done"
    /\ call = "first"
    /\ call' = "again"
    /\ prior' = [input |-> input, result |-> result]
    /\ Call(input)

ParseStep ==
    \/ ParseMemberAttributes
    \/ ParseRequired
    \/ ParseTypeAttributes
    \/ ParseType
    \/ ParseIdentifier
    \/ ParseDefault
    \/ ParseSemiColonRequired
    \/ ParseSemiColonOptional

Next == ParseStep \/ Reserialize

NextAgain == ParseStep \/ Reinvoke

Spec == Init /\ [][Next]_vars

SpecAgain == InitAgain /\ [][NextAgain]_vars

---------------------------------------------------------------------------
(* What the input text says, read off the tokens.                          *)

Returned == pc = "done"
Succeeded == pc = "done" /\ result.status = "Ok"
Failed == pc = "done" /\ result.status = "Err"

\* Entry i of the history consumed input.
Consumed(i) == trace[i].to # trace[i].from

\* `required` was matched by the second sub-parse.
RequiredMatched == Len(trace) >= 2 /\ Consumed(2)
RequiredNotMatched == Len(trace) >= 2 /\ ~Consumed(2)

Parsers == [i \in 1..Len(trace) |-> trace[i].parser]

\* The attribute list the text has at position i, as a parsed Option.
ListAt(text, i) ==
    IF i <= Len(text) /\ text[i] \in AttrLists
    THEN Some(AttrValue(text[i])) ELSE None

\* Texts of the shapes the specification names.
RequiredText(ma, ta, t, i, d) == ma \o <<"required">> \o ta \o <<t, i>> \o d \o <<";">>
OptionalText(ma, t, i, d) == ma \o <<t, i>> \o d \o <<";">>
OptionalDefault == {<<>>} \cup {<<d>> : d \in Defaults}

Member(attrs, req, t, i, def) ==
    [attributes |-> attrs, required |-> req, type_ |-> t, identifier |-> i,
     default |-> def, semi_colon |-> "SemiColon"]

\* The parsed Option of an optional piece of text.
ListOf(l)    == IF l = <<>> THEN None ELSE Some(AttrValue(l[1]))
DefaultOf(d) == IF d = <<>> THEN None ELSE Some(DefaultValue(d[1]))

---------------------------------------------------------------------------
\* C1: when `required` was matched and the parse succeeds, the member's
\* attributes are the type-level list (the one after `required`) if the text
\* has one, whether or not it also has a member-level list, and else the
\* member-level list, present or absent; `[A] required [B] T id;` gives B,
\* `required [A] T id;` and `[A] required T id;` give A, `required T id;` none.
MergeRuleOnRequiredPath ==
    /\ (Succeeded /\ RequiredMatched) =>
          /\ result.member.attributes =
                IF IsSome(type_attributes) THEN type_attributes ELSE attributes
          /\ LET k == IF IsSome(ListAt(input, 1)) THEN 2 ELSE 1 IN
                result.member.attributes =
                   IF IsSome(ListAt(input, k + 1)) THEN ListAt(input, k + 1)
                                                   ELSE ListAt(input, 1)
    /\ \A ma \in OptionalList, ta \in OptionalList, t \in TypeNames, i \in Identifiers :
          (Returned /\ input = RequiredText(ma, ta, t, i, <<>>)) =>
             result = Success(<<>>,
                Member(IF ta # <<>> THEN ListOf(ta) ELSE ListOf(ma),
                       Some("Required"), t, i, None))

BothListsOnRequiredPath ==
    /\ Succeeded /\ RequiredMatched /\ call = "first"
    /\ IsSome(attributes) /\ IsSome(type_attributes)
    /\ attributes # type_attributes
    /\ result.member.attributes = type_attributes

\* C2: a returned member never has both `required` and `default`; a member
\* of `required T id;` has `required`, no attributes and no default.
RequiredExcludesDefault ==
    /\ Succeeded => ~(IsSome(result.member.required) /\ IsSome(result.member.default))
    /\ \A t \in TypeNames, i \in Identifiers :
          (Returned /\ input = <<"required", t, i, ";">>) =>
             result = Success(<<>>, Member(None, Some("Required"), t, i, None))

RequiredMemberReturned ==
    /\ Succeeded /\ call = "first"
    /\ IsSome(result.member.required)
    /\ result.member.default = None

\* C3: when `required` was not matched and the parse succeeds, the member
\* has no `required`, its attributes are the result of the one member-level
\* attribute-list parse (`[A] T id;` gives A, `T id;` none), and the
\* type-level attribute-list parse was never applied.
OptionalPathAttributes ==
    /\ (Succeeded /\ RequiredNotMatched) =>
          /\ result.member.required = None
          /\ result.member.attributes = attributes
          /\ result.member.attributes = ListAt(input, 1)
          /\ \A n \in 1..Len(trace) :
                trace[n].parser \in {"attributes", "type_attributes"} <=> n = 1
    /\ \A ma \in OptionalList, t \in TypeNames, i \in Identifiers :
          (Returned /\ input = OptionalText(ma, t, i, <<>>)) =>
             result = Success(<<>>, Member(ListOf(ma), None, t, i, None))

OptionalMemberWithAttributes ==
    /\ Succeeded /\ RequiredNotMatched /\ call = "first"
    /\ IsSome(result.member.attributes)

\* C4: when `required` was not matched and the parse succeeds, the member
\* has a default exactly if a default clause follows the identifier in the
\* text, and it is that clause; the terminator is parsed after the optional
\* default clause in both cases.
OptionalPathDefault ==
    /\ (Succeeded /\ RequiredNotMatched) =>
          /\ LET k == IF IsSome(ListAt(input, 1)) THEN 3 ELSE 2 IN
                result.member.default =
                   IF input[k + 1] \in Defaults
                   THEN Some(DefaultValue(input[k + 1])) ELSE None
          /\ Len(trace) >= 2
          /\ trace[Len(trace) - 1].parser = "default"
          /\ trace[Len(trace)].parser = "semi_colon"
          /\ trace[Len(trace)].from = trace[Len(trace) - 1].to
    /\ \A ma \in OptionalList, t \in TypeNames, i \in Identifiers, d \in OptionalDefault :
          (Returned /\ input = OptionalText(ma, t, i, d)) =>
             result = Success(<<>>, Member(ListOf(ma), None, t, i, DefaultOf(d)))

OptionalMemberWithDefault ==
    /\ Succeeded /\ RequiredNotMatched /\ call = "first"
    /\ IsSome(result.member.default)

KindOf(parser) ==
    CASE parser = "type" -> "Type"
      [] parser = "identifier" -> "Identifier"
      [] parser = "semi_colon" -> "SemiColon"
      [] OTHER -> "Optional"

IsSuffix(s, text) ==
    /\ Len(s) <= Len(text)
    /\ s = SubSeq(text, Len(text) - Len(s) + 1, Len(text))

\* C5: a failed type, identifier or terminator sub-parse ends the call with
\* that sub-parser's error, unchanged: its kind, and the cursor at the point
\* of failure, after all that matched; no member and no remaining cursor.
\* A text whose type and identifier match and whose terminator is missing
\* fails with the terminator's error positioned after the identifier.
MandatoryFailurePropagates ==
    /\ Returned =>
          LET e == trace[Len(trace)] IN
             /\ result.status = "Err" <=> ~e.ok
             /\ ~e.ok =>
                   /\ e.parser \in {"type", "identifier", "semi_colon"}
                   /\ result = [status |-> "Err", input |-> e.from,
                                kind |-> KindOf(e.parser)]
                   /\ e.from = cursor
                   /\ IsSuffix(e.from, input)
                   /\ (\E n \in 1..Len(trace) : Consumed(n)) => e.from # input
    /\ \A ma \in OptionalList, t \in TypeNames, i \in Identifiers :
          /\ (Returned /\ input = ma \o <<t, i>>) =>
                result = [status |-> "Err", input |-> <<>>, kind |-> "SemiColon"]
          /\ (Returned /\ input = ma \o <<"required", t, i, "[A]", ";">>) =>
                result = [status |-> "Err", input |-> <<"[A]", ";">>,
                          kind |-> "SemiColon"]
          /\ (Returned /\ input = ma \o <<t, ";">>) =>
                result = [status |-> "Err", input |-> <<";">>, kind |-> "Identifier"]
          /\ (Returned /\ input = ma \o <<"required", ";">>) =>
                result = [status |-> "Err", input |-> <<";">>, kind |-> "Type"]

TerminatorMissingAfterIdentifier ==
    /\ Failed /\ call = "first"
    /\ result.kind = "SemiColon"
    /\ identifier \in Identifiers
    /\ result.input # input

Starts(parser) ==
    CASE parser \in {"attributes", "type_attributes"} -> AttrLists
      [] parser = "required" -> {"required"}
      [] parser = "default" -> Defaults
      [] OTHER -> {}

Bound(parser) ==
    CASE parser = "attributes" -> attributes
      [] parser = "required" -> required
      [] parser = "type_attributes" -> type_attributes
      [] parser = "default" -> default
      [] OTHER -> None

OptionalParsers == {"attributes", "required", "type_attributes", "default"}

\* C6: an optional sub-parse (member-level list, `required`, type-level
\* list, default clause) never fails; when its construct is not at the
\* cursor it yields None, leaves the cursor where it was, and the next
\* sub-parser is applied. A call fails only with the error of the type,
\* identifier or terminator sub-parse.
OptionalSubParsesNeverFail ==
    /\ Failed => result.kind \in {"Type", "Identifier", "SemiColon"}
    /\ \A n \in 1..Len(trace) :
          trace[n].parser \in OptionalParsers =>
             /\ trace[n].ok
             /\ n = Len(trace) => pc \notin {"done", "attributes"}
             /\ (trace[n].from = <<>> \/ Head(trace[n].from) \notin Starts(trace[n].parser))
                   => /\ trace[n].to = trace[n].from
                      /\ Bound(trace[n].parser) = None
                      /\ n = Len(trace) => cursor = trace[n].from

AllOptionalPartsAbsent ==
    /\ Succeeded /\ call = "first"
    /\ attributes = None /\ required = None /\ default = None
    /\ Len(trace) = 6

\* C7: the parts of a parsed member, written out in grammar order
\* (attributes, `required`, type, identifier, default, terminator), parse to
\* an equal member with nothing left over, also when the member came from a
\* text with attribute lists in both positions.
RoundTrip ==
    (call = "reparse" /\ Returned) => result = Success(<<>>, prior.result.member)

RoundTripOfBothLists ==
    /\ call = "reparse" /\ Succeeded
    /\ Len(prior.input) >= 3
    /\ prior.input[1] \in AttrLists
    /\ prior.input[2] = "required"
    /\ prior.input[3] \in AttrLists
    /\ input # prior.input

RequiredOrder ==
    <<"attributes", "required", "type_attributes", "type", "identifier", "semi_colon">>
OptionalOrder ==
    <<"attributes", "required", "type", "identifier", "default", "semi_colon">>

\* C9: the sub-parsers are applied in the fixed order of the path, each at
\* the cursor the one before returned; the path is the required one exactly
\* if `required` was matched; a failed sub-parse is the last one applied; a
\* call ends after at most six applications, and on success the remaining
\* cursor is the terminator's.
OrderAndTermination ==
    /\ Len(trace) <= 6
    /\ Parsers = SubSeq(IF RequiredMatched THEN RequiredOrder ELSE OptionalOrder,
                        1, Len(trace))
    /\ Len(trace) >= 1 => trace[1].from = input
    /\ \A n \in 1..(Len(trace) - 1) :
          trace[n].ok /\ trace[n + 1].from = trace[n].to
    /\ (Len(trace) >= 1 /\ ~Returned) =>
          trace[Len(trace)].ok /\ cursor = trace[Len(trace)].to
    /\ Returned => Len(trace) >= 1 /\ (result.status = "Ok" <=> trace[Len(trace)].ok)
    /\ Succeeded => Len(trace) = 6 /\ result.rest = trace[6].to
    /\ Returned <=> result # Pending
    /\ Returned <=> ~ENABLED ParseStep

SuccessWithTextLeft ==
    /\ Succeeded /\ call = "first"
    /\ Len(trace) = 6
    /\ result.rest # <<>>

\* C10: after `required` the default-clause parser is never applied and the
\* call never goes over to the optional path; `required T id = V;`, with or
\* without attribute lists in either position, fails with the terminator's
\* error at the default clause.
RequiredWithDefaultRejected ==
    /\ RequiredMatched =>
          /\ \A n \in 1..Len(trace) : trace[n].parser # "default"
          /\ pc \in {"r_type_attributes", "r_type", "r_identifier",
                     "r_semi_colon", "done"}
          /\ default = None
    /\ \A ma \in OptionalList, ta \in OptionalList, t \in TypeNames, i \in Identifiers,
          d \in Defaults :
          (Returned /\ input = RequiredText(ma, ta, t, i, <<d>>)) =>
             /\ result = [status |-> "Err", input |-> <<d, ";">>,
                          kind |-> "SemiColon"]
             /\ Parsers = RequiredOrder

RequiredWithDefaultFailed ==
    /\ Failed /\ RequiredMatched /\ call = "first"
    /\ IsSome(attributes) /\ IsSome(type_attributes)
    /\ identifier \in Identifiers
    /\ result.input # <<>> /\ Head(result.input) \in Defaults

====
